---- MODULE Spec2Model ----
(***************************************************************************)
(* Budget dashboard: the transaction pipeline of                           *)
(* src/budget_dashboard/parsers/ofx_parser.py (categorisation, balance     *)
(* reconstruction, category aggregation, archival codec) and the callbacks *)
(* of src/budget_dashboard/app.py that hold and edit the collection        *)
(* transaction_dfs.                                                        *)
(*                                                                         *)
(* Modelling conventions                                                   *)
(*   - a text (description, keyword) is a sequence of one-character        *)
(*     strings, so that lower() and the substring test `in` are computed;  *)
(*   - a timestamp is a number of hours since 2024-01-01 00:00; its        *)
(*     calendar day is t \div 24 and freq='D' adds 24;                     *)
(*   - an amount or balance is an integer number of euros (float           *)
(*     rounding is not modelled);                                          *)
(*   - a DataFrame is [columns, rows]; a row is a record with one field    *)
(*     per column name the program uses, a column that is absent (or a     *)
(*     cell that is NaN after pd.concat) holds the Na value of its type;   *)
(*   - the columns of an archive hold values of their kind (numbers in     *)
(*     amount and balance, text elsewhere, or nulls); a frame whose        *)
(*     balance holds other text carries the field text_columns;            *)
(*   - an exception a function catches is modelled by what the function    *)
(*     returns in its except branch.                                       *)
(***************************************************************************)
EXTENDS Integers, Sequences, FiniteSets, TLC

VARIABLES
  transaction_dfs,  \* app.py:27, the held collection (list of DataFrames)
  store_data,       \* dcc.Store 'transaction-data-store' (app.py:42, 681)
  saved,            \* the archive last written by save_transactions
  request,          \* the upload request a server thread is handling
  out               \* what the last operation was given and returned

vars == <<transaction_dfs, store_data, saved, request, out>>

(***************************************************************************)
(* Texts                                                                   *)
(***************************************************************************)

\* str.lower() on one character (ofx_parser.py:83)
LowerChar(c) ==
  CASE c = "A" -> "a" [] c = "B" -> "b" [] c = "C" -> "c" [] c = "D" -> "d"
    [] c = "E" -> "e" [] c = "F" -> "f" [] c = "G" -> "g" [] c = "H" -> "h"
    [] c = "I" -> "i" [] c = "J" -> "j" [] c = "K" -> "k" [] c = "L" -> "l"
    [] c = "M" -> "m" [] c = "N" -> "n" [] c = "O" -> "o" [] c = "P" -> "p"
    [] c = "Q" -> "q" [] c = "R" -> "r" [] c = "S" -> "s" [] c = "T" -> "t"
    [] c = "U" -> "u" [] c = "V" -> "v" [] c = "W" -> "w" [] c = "X" -> "x"
    [] c = "Y" -> "y" [] c = "Z" -> "z" [] OTHER -> c

\* description.lower()
Lower(s) == [i \in 1..Len(s) |-> LowerChar(s[i])]

\* Python's `keyword in description` on str: a contiguous occurrence (the
\* first character is compared before the rest is)
IsSubstring(k, d) ==
  \/ k = <<>>
  \/ \E i \in 0..(Len(d) - Len(k)) :
        d[i + 1] = k[1] /\ SubSeq(d, i + 1, i + Len(k)) = k


SeqsUpTo(S, n) == UNION {[1..k -> S] : k \in 0..n}

\* no archive has been written
NoFile == [format |-> "none"]

\* no request is being handled
NoRequest == [op |-> "none"]

(***************************************************************************)
(* Categorization engine                                                   *)
(***************************************************************************)

\* categories = {...}: the ordered keyword table (dict order is declaration order)
categories ==
  << [category |-> "Courses", keywords |-> <<
       <<"c","a","r","r","e","f","o","u","r">>,  \* 'carrefour'
       <<"c","a","r","r","e","e","f","o","u","r">>,  \* 'carreefour'
       <<"l","i","d","l">>,  \* 'lidl'
       <<"a","l","d","i">>,  \* 'aldi'
       <<"m","o","n","o","p","r","i","x">>,  \* 'monoprix'
       <<"l","e","c","l","e","r","c">>,  \* 'leclerc'
       <<"i","n","t","e","r","m","a","r","c","h","e">>,  \* 'intermarche'
       <<"s","u","p","e","r"," ","u">>,  \* 'super u'
       <<"c","a","s","i","n","o">>,  \* 'casino'
       <<"f","r","a","n","p","r","i","x">>,  \* 'franprix'
       <<"m","a","r","c","h","e">>,  \* 'marche'
       <<"e","p","i","c","e","r","i","e">>,  \* 'epicerie'
       <<"b","o","u","l","a","n","g","e","r","i","e">>,  \* 'boulangerie'
       <<"a","l","i","m","e","n","t","a","t","i","o","n">>,  \* 'alimentation'
       <<"p","i","c","a","r","d">>   \* 'picard'
     >>],
     [category |-> "Restaurants", keywords |-> <<
       <<"r","e","s","t","a","u","r","a","n","t">>,  \* 'restaurant'
       <<"c","a","f","e">>,  \* 'cafe'
       <<"b","a","r">>,  \* 'bar'
       <<"b","i","s","t","r","o","t">>,  \* 'bistrot'
       <<"b","r","a","s","s","e","r","i","e">>,  \* 'brasserie'
       <<"u","b","e","r"," ","e","a","t","s">>,  \* 'uber eats'
       <<"d","e","l","i","v","e","r","o","o">>,  \* 'deliveroo'
       <<"j","u","s","t"," ","e","a","t">>,  \* 'just eat'
       <<"f","r","i","c","h","t","i">>,  \* 'frichti'
       <<"t","r","a","i","t","e","u","r">>   \* 'traiteur'
     >>],
     [category |-> "Transport", keywords |-> <<
       <<"u","b","e","r">>,  \* 'uber'
       <<"t","a","x","i">>,  \* 'taxi'
       <<"t","r","a","n","s","p","o","r","t">>,  \* 'transport'
       <<"m","e","t","r","o">>,  \* 'metro'
       <<"r","a","t","p">>,  \* 'ratp'
       <<"s","n","c","f">>,  \* 'sncf'
       <<"b","u","s">>,  \* 'bus'
       <<"t","r","a","i","n">>,  \* 'train'
       <<"e","s","s","e","n","c","e">>,  \* 'essence'
       <<"c","a","r","b","u","r","a","n","t">>,  \* 'carburant'
       <<"p","a","r","k","i","n","g">>,  \* 'parking'
       <<"p","e","a","g","e">>,  \* 'peage'
       <<"a","u","t","o","r","o","u","t","e">>   \* 'autoroute'
     >>],
     [category |-> "Shopping", keywords |-> <<
       <<"a","m","a","z","o","n">>,  \* 'amazon'
       <<"f","n","a","c">>,  \* 'fnac'
       <<"d","a","r","t","y">>,  \* 'darty'
       <<"g","a","l","e","r","i","e","s"," ","l","a","f","a","y","e","t","t","e">>,  \* 'galeries lafayette'
       <<"p","r","i","n","t","e","m","p","s">>,  \* 'printemps'
       <<"z","a","r","a">>,  \* 'zara'
       <<"h","&","m">>,  \* 'h&m'
       <<"u","n","i","q","l","o">>,  \* 'uniqlo'
       <<"d","e","c","a","t","h","l","o","n">>,  \* 'decathlon'
       <<"v","e","t","e","m","e","n","t">>,  \* 'vetement'
       <<"a","c","h","a","t">>,  \* 'achat'
       <<"b","u","i","s","s","o","n">>,  \* 'buisson'
       <<"m","a","t","h","o","n">>,  \* 'mathon'
       <<"v","e","r","b","a","u","d","e","t">>   \* 'verbaudet'
     >>],
     [category |-> "Seconde Main", keywords |-> <<
       <<"v","i","n","t","e","d">>,  \* 'vinted'
       <<"l","e","b","o","n","c","o","i","n">>   \* 'leboncoin'
     >>],
     [category |-> "Loisirs", keywords |-> <<
       <<"c","i","n","e","m","a">>,  \* 'cinema'
       <<"f","i","l","m">>,  \* 'film'
       <<"t","h","e","a","t","r","e">>,  \* 'theatre'
       <<"b","i","l","l","e","t">>,  \* 'billet'
       <<"c","o","n","c","e","r","t">>,  \* 'concert'
       <<"n","e","t","f","l","i","x">>,  \* 'netflix'
       <<"d","e","e","z","e","r">>,  \* 'deezer'
       <<"a","b","o","n","n","e","m","e","n","t">>,  \* 'abonnement'
       <<"c","u","b","i","c","l","e">>,  \* 'cubicle'
       <<"s","t","e","a","m">>,  \* 'steam'
       <<"e","p","i","c"," ","g","a","m","e","s">>   \* 'epic games'
     >>],
     [category |-> "Sante", keywords |-> <<
       <<"p","h","a","r","m","a","c","i","e">>,  \* 'pharmacie'
       <<"m","e","d","e","c","i","n">>,  \* 'medecin'
       <<"d","o","c","t","e","u","r">>,  \* 'docteur'
       <<"m","e","d","i","c","a","l">>,  \* 'medical'
       <<"s","a","n","t","e">>,  \* 'sante'
       <<"d","e","n","t","i","s","t","e">>,  \* 'dentiste'
       <<"h","o","p","i","t","a","l">>,  \* 'hopital'
       <<"m","u","t","u","e","l","l","e">>,  \* 'mutuelle'
       <<"d","e","l","i","g","n","i","e","r","e","s">>,  \* 'delignieres'
       <<"p","h","a","r","m","a">>,  \* 'pharma'
       <<"d","a","f","n","i","e","t">>,  \* 'dafniet'
       <<"k","l","o","u","c","h","e">>,  \* 'klouche'
       <<"c","a","d","e","a","u">>   \* 'cadeau'
     >>],
     [category |-> "Services", keywords |-> <<
       <<"e","l","e","c","t","r","i","c","i","t","e">>,  \* 'electricite'
       <<"e","d","f">>,  \* 'edf'
       <<"e","n","g","i","e">>,  \* 'engie'
       <<"e","a","u">>,  \* 'eau'
       <<"v","e","o","l","i","a">>,  \* 'veolia'
       <<"i","n","t","e","r","n","e","t">>,  \* 'internet'
       <<"o","r","a","n","g","e">>,  \* 'orange'
       <<"s","f","r">>,  \* 'sfr'
       <<"f","r","e","e">>,  \* 'free'
       <<"b","o","u","y","g","u","e","s">>,  \* 'bouygues'
       <<"f","a","c","t","u","r","e">>,  \* 'facture'
       <<"g","i","m","m","i","c","k">>   \* 'gimmick'
     >>],
     [category |-> "Logement", keywords |-> <<
       <<"l","o","y","e","r">>,  \* 'loyer'
       <<"c","r","e","d","i","t">>,  \* 'credit'
       <<"a","p","p","a","r","t","e","m","e","n","t">>,  \* 'appartement'
       <<"m","a","i","s","o","n">>,  \* 'maison'
       <<"a","s","s","u","r","a","n","c","e">>,  \* 'assurance'
       <<"h","a","b","i","t","a","t","i","o","n">>,  \* 'habitation'
       <<"c","h","a","r","g","e","s">>,  \* 'charges'
       <<"i","m","m","o","b","i","l","i","e","r">>   \* 'immobilier'
     >>],
     [category |-> "Revenus", keywords |-> <<
       <<"s","a","l","a","i","r","e">>,  \* 'salaire'
       <<"v","i","r","e","m","e","n","t">>,  \* 'virement'
       <<"r","e","v","e","n","u">>,  \* 'revenu'
       <<"p","a","i","e","m","e","n","t"," ","r","e","c","u">>,  \* 'paiement recu'
       <<"r","e","m","b","o","u","r","s","e","m","e","n","t">>   \* 'remboursement'
     >>],
     [category |-> "Virements", keywords |-> <<
       <<"v","i","r","e","m","e","n","t">>,  \* 'virement'
       <<"r","e","t","r","a","i","t">>,  \* 'retrait'
       <<"d","e","p","o","t">>,  \* 'depot'
       <<"d","a","b">>,  \* 'dab'
       <<"g","u","i","c","h","e","t">>   \* 'guichet'
     >>],
     [category |-> "Voiture", keywords |-> <<
       <<"e","s","s","e","n","c","e">>,  \* 'essence'
       <<"c","a","r","b","u","r","a","n","t">>,  \* 'carburant'
       <<"p","a","r","k","i","n","g">>,  \* 'parking'
       <<"p","e","a","g","e">>,  \* 'peage'
       <<"a","u","t","o","r","o","u","t","e">>,  \* 'autoroute'
       <<"a","s","f">>,  \* 'asf'
       <<"b","a","i","n"," ","d","e">>   \* 'bain de'
     >>],
     [category |-> "Banque", keywords |-> <<
       <<"L","C","L">>,  \* 'LCL'
       <<"c","o","t","i","s","a","t","i","o","n">>,  \* 'cotisation'
       <<"a","s","s","u","r","a","n","c","e">>,  \* 'assurance'
       <<"C","A","C","I">>   \* 'CACI'
     >>],
     [category |-> "Maison", keywords |-> <<
       <<"l","e","r","o","y">>   \* 'leroy'
     >>] >>

\* the default category returned when no keyword matches
DefaultCategory == "Autre"

\* for keyword in keywords: if keyword in description (the description is
\* already lowercased by the caller): some keyword from position j on occurs
keyword_loop(keywords, description, j) ==
  \E n \in j..Len(keywords) : IsSubstring(keywords[n], description)

\* for category, keywords in categories.items(): ... return category;
\* falls out of the loop to return 'Autre'. i is the loop position.
RECURSIVE category_loop(_, _)
category_loop(description, i) ==
  IF i > Len(categories) THEN DefaultCategory
  ELSE IF keyword_loop(categories[i].keywords, description, 1)
       THEN categories[i].category
  ELSE category_loop(description, i + 1)

\* categorize_transaction, did it read the first character of the
\* description before the search
categorize_first_character(description) ==
  IF description = <<>> \/ description[1] = " " THEN "IndexError"
  ELSE category_loop(Lower(description), 1)

\* categorize_transaction, were the last declared category that matches
categorize_last_match(description) ==
  LET d == Lower(description)
      hits == {i \in 1..Len(categories) :
                 \E j \in 1..Len(categories[i].keywords) :
                    IsSubstring(categories[i].keywords[j], d)}
  IN  IF hits = {} THEN DefaultCategory
      ELSE categories[CHOOSE i \in hits : \A h \in hits : h <= i].category

\* categorize_transaction(description), description a str
categorize_transaction(description) ==
  category_loop(Lower(description), 1)


(***************************************************************************)
(* Timestamps and DataFrames                                               *)
(***************************************************************************)

\* Series.dt.date: the calendar day of a timestamp
DayOf(t) == t \div 24

\* pd.to_datetime(date): the timestamp of a calendar day, at 00:00
Midnight(day) == day * 24

\* pd.DataFrame(): no column, no row
EmptyDataFrame == [columns |-> {}, rows |-> <<>>]

\* DataFrame.empty
empty(df) == df.rows = <<>>

\* what a cell holds when its column is absent or NaN
NaText == "<NA>"

\* the columns parse_ofx gives a DataFrame (ofx_parser.py:29-44)
AccountColumns == {"account_id", "account_type", "balance", "currency"}
OfxColumns ==
  {"date", "amount", "description", "type", "category"} \cup AccountColumns

RECURSIVE Flatten(_)
Flatten(seqs) ==
  IF seqs = <<>> THEN <<>> ELSE Head(seqs) \o Flatten(Tail(seqs))

\* pd.concat(dfs, ignore_index=True): the rows of all frames in order, the
\* union of their columns (a cell of a column its frame lacks is NaN)
concat(dfs) ==
  [columns |-> UNION {dfs[i].columns : i \in 1..Len(dfs)},
   rows |-> Flatten([i \in 1..Len(dfs) |-> dfs[i].rows])]

\* Series.sum() over the amount column of rows
RECURSIVE sum_amount(_)
sum_amount(rows) ==
  IF rows = <<>> THEN 0 ELSE Head(rows).amount + sum_amount(Tail(rows))

\* rows with r inserted before the first row dated later than r
RECURSIVE insert_by_date(_, _)
insert_by_date(r, rows) ==
  IF rows = <<>> THEN <<r>>
  ELSE IF r.date < Head(rows).date THEN <<r>> \o rows
  ELSE <<Head(rows)>> \o insert_by_date(r, Tail(rows))

\* DataFrame.sort_values('date') on the rows
RECURSIVE sort_values_date(_)
sort_values_date(rows) ==
  IF rows = <<>> THEN <<>>
  ELSE insert_by_date(rows[Len(rows)], sort_values_date(SubSeq(rows, 1, Len(rows) - 1)))

SeqFilter(s, Keep(_)) ==
  LET F[i \in 0..Len(s)] ==
        IF i = 0 THEN <<>>
        ELSE IF Keep(s[i]) THEN Append(F[i - 1], s[i]) ELSE F[i - 1]
  IN  F[Len(s)]

(***************************************************************************)
(* Format parsers: bank statements                                         *)
(***************************************************************************)

\* a line of a statement: the attributes memo and payee hold a text, ''
\* included, or None; a line whose attribute is None has no such field, and
\* a line whose amount is no number has no field amount
IsNone(line, attribute) == attribute \notin DOMAIN line

\* `transaction.memo if transaction.memo else transaction.payee`
\* (ofx_parser.py:32, 34): None when memo is None or '' and payee is None
memo_or_payee_is_none(line) ==
  /\ IsNone(line, "memo") \/ line.memo = <<>>
  /\ IsNone(line, "payee")
memo_or_payee(line) ==
  IF ~IsNone(line, "memo") /\ line.memo # <<>> THEN line.memo ELSE line.payee

\* the line makes the try block of parse_ofx raise: its amount is not
\* converted (ofx_parser.py:21, 31) or categorize_transaction is given None
\* (ofx_parser.py:34, 83)
raises(line) == IsNone(line, "amount") \/ memo_or_payee_is_none(line)

\* the record of one line (ofx_parser.py:29-35) with the account columns
\* (41-44)
transaction_record(contents, line, description) ==
  [date |-> line.date,
   amount |-> line.amount,
   description |-> description,
   type |-> line.type,
   category |-> categorize_transaction(description),
   account_id |-> contents.account_id,
   account_type |-> contents.account_type,
   balance |-> contents.balance,
   currency |-> contents.currency,
   id |-> 0]

\* parse_ofx, did it take the payee before the memo
parse_ofx_payee_first(contents) ==
  IF contents.format # "ofx" THEN EmptyDataFrame
  ELSE IF \E i \in 1..Len(contents.transactions) :
             raises(contents.transactions[i]) THEN EmptyDataFrame
  ELSE
    LET lines == contents.transactions
    IN  [columns |-> IF lines = <<>> THEN AccountColumns ELSE OfxColumns,
         rows |-> [i \in 1..Len(lines) |->
                     transaction_record(contents, lines[i],
                       IF ~IsNone(lines[i], "payee") /\ lines[i].payee # <<>>
                       THEN lines[i].payee ELSE memo_or_payee(lines[i]))]]

\* parse_ofx, did it leave out the lines it cannot convert
parse_ofx_skipping_lines(contents) ==
  IF contents.format # "ofx" THEN EmptyDataFrame
  ELSE
    LET lines == SeqFilter(contents.transactions, LAMBDA l : ~raises(l))
    IN  [columns |-> IF lines = <<>> THEN AccountColumns ELSE OfxColumns,
         rows |-> [i \in 1..Len(lines) |->
                     transaction_record(contents, lines[i],
                                        memo_or_payee(lines[i]))]]

\* parse_ofx(contents, filename). OfxParser.parse raises on bytes that are
\* no statement, ofx.accounts[0] on a statement without account, and the
\* loop on a line it cannot convert; all end in the except branch
\* (ofx_parser.py:48-50), whatever lines came before.
parse_ofx(contents) ==
  IF contents.format # "ofx" THEN EmptyDataFrame
  ELSE IF \E i \in 1..Len(contents.transactions) :
             raises(contents.transactions[i]) THEN EmptyDataFrame
  ELSE
    LET lines == contents.transactions
    IN  [columns |-> IF lines = <<>> THEN AccountColumns ELSE OfxColumns,
         rows |-> [i \in 1..Len(lines) |->
                     transaction_record(contents, lines[i],
                                        memo_or_payee(lines[i]))]]

\* parse_ofc(contents, filename): parse_ofx never raises, so its result
parse_ofc(contents) == parse_ofx(contents)

(***************************************************************************)
(* Balance reconstructor                                                   *)
(***************************************************************************)

\* starting_balance, were the anchor ignored
starting_balance_from_file(dfs, manual_balance) ==
  dfs[1].rows[1].balance - sum_amount(dfs[1].rows)

\* starting_balance, were, without anchor, the total of all batches
\* subtracted from the first trailing balance
starting_balance_all_batches(dfs, manual_balance) ==
  IF manual_balance # 0
  THEN manual_balance - sum_amount(concat(dfs).rows)
  ELSE dfs[1].rows[1].balance - sum_amount(concat(dfs).rows)

\* starting_balance, were the anchor reduced by the total of the first
\* batch alone
starting_balance_first_batch(dfs, manual_balance) ==
  manual_balance - sum_amount(dfs[1].rows)

\* the column col of df holds text that float() rejects: such a frame has
\* the field text_columns (the frames of parse_ofx have numbers only)
NonNumeric(df, col) == "text_columns" \in DOMAIN df /\ col \in df.text_columns

\* the starting balance (ofx_parser.py:140-156), for dfs whose first frame
\* has a row: float() of a balance that is no number raises ValueError, and
\* the except branch gives 0.0
starting_balance(dfs, manual_balance) ==
  IF manual_balance # 0
  THEN manual_balance - sum_amount(sort_values_date(concat(dfs).rows))
  ELSE IF NonNumeric(dfs[1], "balance") THEN 0
  ELSE dfs[1].rows[1].balance - sum_amount(dfs[1].rows)

Min(S) == CHOOSE x \in S : \A y \in S : x <= y
Max(S) == CHOOSE x \in S : \A y \in S : y <= x

\* pd.date_range(start, end, freq='D'): start, start + 1 day, ... up to end
date_range(start, end) ==
  [i \in 1..((end - start) \div 24 + 1) |-> start + 24 * (i - 1)]

\* combined_df.groupby(combined_df['date'].dt.date)['amount'].sum(): one
\* total per calendar day that has a transaction
daily_transactions(rows) ==
  [day \in {DayOf(rows[i].date) : i \in 1..Len(rows)} |->
     sum_amount(SeqFilter(rows, LAMBDA r : DayOf(r.date) = day))]

\* pd.merge(balance_df, daily_transactions, on='date', how='left') and
\* fillna(0): the total of the day whose midnight is the entry's timestamp
merged_amount(daily, t) ==
  IF \E day \in DOMAIN daily : Midnight(day) = t
  THEN daily[CHOOSE day \in DOMAIN daily : Midnight(day) = t]
  ELSE 0

RECURSIVE sum_seq(_)
sum_seq(xs) == IF xs = <<>> THEN 0 ELSE Head(xs) + sum_seq(Tail(xs))

\* Series.cumsum()
cumsum(xs) == [i \in 1..Len(xs) |-> sum_seq(SubSeq(xs, 1, i))]

\* get_balance_over_time(dfs, manual_balance): the (date, balance) series.
\* Without anchor, dfs[0]['balance'].iloc[0] raises KeyError or IndexError
\* when the first frame is empty; the outer except returns the empty frame.
get_balance_over_time(dfs, manual_balance) ==
  IF dfs = <<>> \/ \A i \in 1..Len(dfs) : empty(dfs[i]) THEN <<>>
  ELSE IF manual_balance = 0 /\ empty(dfs[1]) THEN <<>>
  ELSE
    LET combined == sort_values_date(concat(dfs).rows)
        start == starting_balance(dfs, manual_balance)
        dates == {combined[i].date : i \in 1..Len(combined)}
        range == date_range(Min(dates), Max(dates))
        daily == daily_transactions(combined)
        amount == [i \in 1..Len(range) |-> merged_amount(daily, range[i])]
        total == cumsum(amount)
    IN  [i \in 1..Len(range) |-> [date |-> range[i], balance |-> start + total[i]]]

(***************************************************************************)
(* Category aggregator                                                     *)
(***************************************************************************)

\* str order of the category labels met in the model (groupby sorts its keys)
AlphabeticalOrder ==
  <<"", "Autre", "Banque", "Courses", "Foo", "Logement", "Loisirs", "Maison",
    "Restaurants", "Revenus", "Sante", "Seconde Main", "Services", "Shopping",
    "Transport", "Virements", "Voiture">>

Abs(x) == IF x < 0 THEN -x ELSE x

\* expenses, were amounts of zero kept too
expenses_with_zero(rows) == SeqFilter(rows, LAMBDA r : r.amount <= 0)

\* combined_df[combined_df['amount'] < 0]
expenses(rows) == SeqFilter(rows, LAMBDA r : r.amount < 0)

\* expenses_df['amount'].abs() summed over the rows of one category
group_sum(rows, category) ==
  sum_amount(SeqFilter([i \in 1..Len(rows) |->
                          [rows[i] EXCEPT !.amount = Abs(rows[i].amount)]],
                       LAMBDA r : r.category = category))

\* groupby('category')['amount'].sum().reset_index(): one entry per category
\* present, in key order; a row whose category is null is dropped
groupby_category(rows) ==
  LET keys == {rows[i].category : i \in 1..Len(rows)} \ {NaText}
      ordered == SeqFilter(AlphabeticalOrder, LAMBDA c : c \in keys)
  IN  [i \in 1..Len(ordered) |->
         [category |-> ordered[i], amount |-> group_sum(rows, ordered[i])]]

\* entries with e inserted after the entries whose amount is >= e's
RECURSIVE insert_descending(_, _)
insert_descending(e, entries) ==
  IF entries = <<>> THEN <<e>>
  ELSE IF e.amount > Head(entries).amount THEN <<e>> \o entries
  ELSE <<Head(entries)>> \o insert_descending(e, Tail(entries))

\* sort_values, did it leave the entries in the order of their keys
sort_values_by_key(entries) == entries

\* sort_values('amount', ascending=False); entries of equal amount keep
\* their key order
RECURSIVE sort_values_amount(_)
sort_values_amount(entries) ==
  IF entries = <<>> THEN <<>>
  ELSE insert_descending(entries[Len(entries)],
                         sort_values_amount(SubSeq(entries, 1, Len(entries) - 1)))

\* get_spending_by_category, did it total the amounts of every sign
get_spending_unfiltered(dfs) ==
  IF dfs = <<>> \/ \A i \in 1..Len(dfs) : empty(dfs[i]) THEN <<>>
  ELSE sort_values_amount(groupby_category(concat(dfs).rows))

\* get_spending_by_category(dfs)
get_spending_by_category(dfs) ==
  IF dfs = <<>> \/ \A i \in 1..Len(dfs) : empty(dfs[i]) THEN <<>>
  ELSE sort_values_amount(groupby_category(expenses(concat(dfs).rows)))

(***************************************************************************)
(* Upload callbacks                                                        *)
(***************************************************************************)

\* the loop of update_output, did a file that fails end the upload
RECURSIVE update_output_loop_aborting(_, _, _, _)
update_output_loop_aborting(files, i, dfs, upload_results) ==
  IF i > Len(files) THEN [dfs |-> dfs, upload_results |-> upload_results]
  ELSE LET df == IF files[i].name \in {"ofx", "ofc"}
                 THEN parse_ofx(files[i].contents) ELSE EmptyDataFrame
       IN  IF ~empty(df)
           THEN update_output_loop_aborting(files, i + 1, Append(dfs, df),
                  Append(upload_results,
                         [file |-> i, outcome |-> "parsed", count |-> Len(df.rows)]))
           ELSE [dfs |-> dfs,
                 upload_results |->
                   upload_results \o
                     [k \in 1..(Len(files) - i + 1) |->
                        [file |-> i + k - 1, outcome |-> "error", count |-> 0]]]

\* the loop of update_output, did it append every parse result of a
\* statement file, an empty one included
RECURSIVE update_output_loop_appending_empty(_, _, _, _)
update_output_loop_appending_empty(files, i, dfs, upload_results) ==
  IF i > Len(files) THEN [dfs |-> dfs, upload_results |-> upload_results]
  ELSE IF files[i].name \in {"ofx", "ofc"}
  THEN LET df == parse_ofx(files[i].contents)
       IN  update_output_loop_appending_empty(files, i + 1, Append(dfs, df),
             Append(upload_results,
                    [file |-> i,
                     outcome |-> IF empty(df) THEN "error" ELSE "parsed",
                     count |-> Len(df.rows)]))
  ELSE update_output_loop_appending_empty(files, i + 1, dfs,
         Append(upload_results,
                [file |-> i, outcome |-> "unsupported", count |-> 0]))

\* the for loop of update_output (app.py:256-283) from file i on: the frames
\* appended to transaction_dfs and the outcome reported for each file
RECURSIVE update_output_loop(_, _, _, _)
update_output_loop(files, i, dfs, upload_results) ==
  IF i > Len(files) THEN [dfs |-> dfs, upload_results |-> upload_results]
  ELSE IF files[i].name \in {"ofx", "ofc"}
  THEN LET df == IF files[i].name = "ofx" THEN parse_ofx(files[i].contents)
                 ELSE parse_ofc(files[i].contents)
       IN  IF ~empty(df)
           THEN update_output_loop(files, i + 1, Append(dfs, df),
                  Append(upload_results,
                         [file |-> i, outcome |-> "parsed", count |-> Len(df.rows)]))
           ELSE update_output_loop(files, i + 1, dfs,
                  Append(upload_results,
                         [file |-> i, outcome |-> "error", count |-> 0]))
  ELSE update_output_loop(files, i + 1, dfs,
         Append(upload_results,
                [file |-> i, outcome |-> "unsupported", count |-> 0]))

\* update_output, did it keep what is held and append to it
update_output_extending(files) ==
  LET uploaded == update_output_loop(files, 1, <<>>, <<>>)
  IN  [uploaded EXCEPT !.dfs = transaction_dfs \o @]

\* update_output(list_of_contents, list_of_names, list_of_dates), given
\* files: transaction_dfs = [] and then the loop
update_output(files) == update_output_loop(files, 1, <<>>, <<>>)

(***************************************************************************)
(* Archives: save_transactions_to_parquet, load_transactions_from_parquet  *)
(***************************************************************************)

\* An archive is [format |-> "parquet", columns, rows]: the table
\* pd.read_parquet gives back.  A cell of a column the table lacks holds 0
\* (balance, id) or NaText.

\* required_columns (ofx_parser.py:282)
required_columns == {"date", "amount", "description", "category"}

\* load_transactions_from_parquet, did it set the four account columns
\* whether the archive has them or not
load_transactions_overwriting(contents) ==
  IF contents.format # "parquet" THEN EmptyDataFrame
  ELSE IF ~(required_columns \subseteq contents.columns) THEN EmptyDataFrame
  ELSE [columns |-> contents.columns \cup AccountColumns,
        rows |-> [k \in 1..Len(contents.rows) |->
                    [contents.rows[k] EXCEPT
                       !.balance = 0, !.account_id = "parquet-import",
                       !.account_type = "checking", !.currency = "EUR"]]]

\* load_transactions_from_parquet, did it categorise the descriptions anew
load_transactions_recategorized(contents) ==
  IF contents.format # "parquet" THEN EmptyDataFrame
  ELSE IF ~(required_columns \subseteq contents.columns) THEN EmptyDataFrame
  ELSE [columns |-> contents.columns \cup AccountColumns,
        rows |-> [k \in 1..Len(contents.rows) |->
                    [contents.rows[k] EXCEPT
                       !.category = categorize_transaction(contents.rows[k].description)]]]

\* load_transactions_from_parquet(contents, filename): read_parquet raises
\* on bytes that are no archive; a table lacking a required column gives an
\* empty frame; the four account columns are filled in when absent.  The
\* values of the table, category included, are taken as they are.
load_transactions_from_parquet(contents) ==
  IF contents.format # "parquet" THEN EmptyDataFrame
  ELSE IF ~(required_columns \subseteq contents.columns) THEN EmptyDataFrame
  ELSE
    LET has(col) == col \in contents.columns
        fill(r) ==
          [r EXCEPT
             !.balance = IF has("balance") THEN @ ELSE 0,
             !.account_id = IF has("account_id") THEN @ ELSE "parquet-import",
             !.account_type = IF has("account_type") THEN @ ELSE "checking",
             !.currency = IF has("currency") THEN @ ELSE "EUR"]
    IN  [columns |-> contents.columns \cup AccountColumns,
         rows |-> [k \in 1..Len(contents.rows) |-> fill(contents.rows[k])]]

\* save_transactions_to_parquet(dfs, filepath): the file written, NoFile
\* when nothing is written (the function returns False)
save_transactions_to_parquet(dfs) ==
  IF dfs = <<>> \/ \A i \in 1..Len(dfs) : empty(dfs[i]) THEN NoFile
  ELSE LET combined_df == concat(dfs)
       IN  [format |-> "parquet", columns |-> combined_df.columns,
            rows |-> combined_df.rows]

\* the for loop of update_output_parquet (app.py:315-333) from file i on
RECURSIVE update_output_parquet_loop(_, _, _, _)
update_output_parquet_loop(files, i, new_dfs, upload_results) ==
  IF i > Len(files) THEN [dfs |-> new_dfs, upload_results |-> upload_results]
  ELSE IF files[i].name = "parquet"
  THEN LET df == load_transactions_from_parquet(files[i].contents)
       IN  IF ~empty(df)
           THEN update_output_parquet_loop(files, i + 1, Append(new_dfs, df),
                  Append(upload_results,
                         [file |-> i, outcome |-> "parsed", count |-> Len(df.rows)]))
           ELSE update_output_parquet_loop(files, i + 1, new_dfs,
                  Append(upload_results,
                         [file |-> i, outcome |-> "error", count |-> 0]))
  ELSE update_output_parquet_loop(files, i + 1, new_dfs,
         Append(upload_results,
                [file |-> i, outcome |-> "unsupported", count |-> 0]))

\* update_output_parquet(list_of_contents, list_of_names, list_of_dates):
\* the frames it extends transaction_dfs by, and the outcomes
update_output_parquet(files) == update_output_parquet_loop(files, 1, <<>>, <<>>)

(***************************************************************************)
(* Derived-view callbacks                                                  *)
(***************************************************************************)

\* the date picker's (start_date, end_date); given is `start_date and end_date`
NoFilter == [given |-> FALSE, start_date |-> 0, end_date |-> 0]

\* df[(df['date'] >= start_date) & (df['date'] <= end_date)], the bounds
\* being pd.to_datetime of the picked days
filter_rows(rows, filter) ==
  SeqFilter(rows, LAMBDA r : /\ r.date >= Midnight(filter.start_date)
                             /\ r.date <= Midnight(filter.end_date))

\* update_balance_chart(parsed_files, start_date, end_date, preset, manual_balance)
update_balance_chart(filter, manual_input) ==
  LET manual_balance == IF manual_input.given THEN manual_input.value ELSE 0
      balance_df == get_balance_over_time(transaction_dfs, manual_balance)
  IN  out' = [op |-> "update_balance_chart",
              manual_balance |-> manual_balance,
              filter |-> filter,
              starting_balance |->
                IF balance_df = <<>> THEN 0
                ELSE starting_balance(transaction_dfs, manual_balance),
              balance_df |-> balance_df,
              figure |-> IF filter.given THEN filter_rows(balance_df, filter)
                         ELSE balance_df]

\* the filtered_dfs of update_pie_chart and update_category_bar_chart
filtered_dfs(dfs, filter) ==
  IF filter.given
  THEN [i \in 1..Len(dfs) |-> [dfs[i] EXCEPT !.rows = filter_rows(@, filter)]]
  ELSE dfs

\* update_pie_chart(parsed_files, start_date, end_date)
update_pie_chart(filter) ==
  out' = [op |-> "update_pie_chart",
          filter |-> filter,
          figure |-> IF transaction_dfs = <<>> THEN <<>>
                     ELSE get_spending_by_category(filtered_dfs(transaction_dfs, filter))]

\* update_category_bar_chart(parsed_files, start_date, end_date)
update_category_bar_chart(filter) ==
  out' = [op |-> "update_category_bar_chart",
          filter |-> filter,
          figure |-> IF transaction_dfs = <<>> THEN <<>>
                     ELSE get_spending_by_category(filtered_dfs(transaction_dfs, filter))]

(***************************************************************************)
(* Transactions table and category edits                                   *)
(***************************************************************************)

\* the ids of the rows of frames, a store or an archive that have one
\* (0 stands for a cell without id)
IdsOfRows(rows) == {rows[i].id : i \in 1..Len(rows)} \ {0}
IdsOfDfs(dfs) == UNION {IdsOfRows(dfs[i].rows) : i \in 1..Len(dfs)}
IdsOfFile(file) == IF file.format = "none" THEN {} ELSE IdsOfRows(file.rows)

\* [str(uuid.uuid4()) for _ in range(n)]: n identifiers, distinct from one
\* another and from every identifier in use; the k-th is the k-th natural
\* number that is not in use
RECURSIVE uuid4s(_, _)
uuid4s(n, used) ==
  IF n = 0 THEN <<>>
  ELSE LET id == CHOOSE k \in 1..(Cardinality(used) + 1) : k \notin used
       IN  <<id>> \o uuid4s(n - 1, used \cup {id})

\* rows with r inserted before the first row dated earlier than r
RECURSIVE insert_by_date_desc(_, _)
insert_by_date_desc(r, rows) ==
  IF rows = <<>> THEN <<r>>
  ELSE IF r.date > Head(rows).date THEN <<r>> \o rows
  ELSE <<Head(rows)>> \o insert_by_date_desc(r, Tail(rows))

\* DataFrame.sort_values('date', ascending=False) on the rows
RECURSIVE sort_values_date_desc(_)
sort_values_date_desc(rows) ==
  IF rows = <<>> THEN <<>>
  ELSE insert_by_date_desc(rows[Len(rows)],
                           sort_values_date_desc(SubSeq(rows, 1, Len(rows) - 1)))

\* the list of get_available_categories, were 'Autre' left out of it
available_categories_without_default ==
  {"Courses", "Restaurants", "Transport", "Shopping", "Seconde Main",
   "Loisirs", "Sante", "Services", "Logement", "Revenus",
   "Virements", "Voiture", "Banque", "Maison"}

\* get_available_categories() (app.py:30-37), as a set
get_available_categories ==
  {"Courses", "Restaurants", "Transport", "Shopping", "Seconde Main",
   "Loisirs", "Sante", "Services", "Logement", "Revenus",
   "Virements", "Voiture", "Banque", "Maison", "Autre"}

\* update_transactions_table(parsed_files, start_date, end_date): the
\* records returned for the store. The rows of all frames, filtered, latest
\* first, the date formatted '%Y-%m-%d' (its calendar day), and a new uuid4
\* in 'id' for every row, whatever 'id' the frames hold.
update_transactions_table(dfs, filter, used) ==
  IF dfs = <<>> THEN <<>>
  ELSE
    LET combined == concat(dfs).rows
        shown == sort_values_date_desc(
                   IF filter.given THEN filter_rows(combined, filter) ELSE combined)
        ids == uuid4s(Len(shown), used)
    IN  [k \in 1..Len(shown) |->
           [shown[k] EXCEPT !.date = DayOf(shown[k].date), !.id = ids[k]]]

\* one frame in the loop of update_transaction_category_in_dfs
\* (app.py:744-747): an 'id' column of new uuid4s when it has none
with_id_column(df, used) ==
  IF "id" \in df.columns THEN df
  ELSE LET ids == uuid4s(Len(df.rows), used)
       IN  [columns |-> df.columns \cup {"id"},
            rows |-> [j \in 1..Len(df.rows) |-> [df.rows[j] EXCEPT !.id = ids[j]]]]

\* transaction_dfs[i].loc[df['id'] == transaction_id, 'category'] = new_category
set_category(df, transaction_id, new_category) ==
  [df EXCEPT !.rows =
     [j \in 1..Len(df.rows) |->
        IF df.rows[j].id = transaction_id
        THEN [df.rows[j] EXCEPT !.category = new_category]
        ELSE df.rows[j]]]

\* the loop of update_transaction_category_in_dfs from frame i on
RECURSIVE in_dfs_loop(_, _, _, _, _)
in_dfs_loop(dfs, i, transaction_id, new_category, used) ==
  IF i > Len(dfs) THEN dfs
  ELSE
    LET df == with_id_column(dfs[i], used)
    IN  IF transaction_id \in IdsOfRows(df.rows)
        THEN [dfs EXCEPT ![i] = set_category(df, transaction_id, new_category)]
        ELSE in_dfs_loop([dfs EXCEPT ![i] = df], i + 1, transaction_id,
                         new_category, used \cup IdsOfRows(df.rows))

\* update_transaction_category_in_dfs(transaction_id, new_category): the new
\* value of transaction_dfs
update_transaction_category_in_dfs(dfs, transaction_id, new_category, used) ==
  in_dfs_loop(dfs, 1, transaction_id, new_category, used)

\* update_transaction_category(new_categories, data), fired by the dropdown
\* whose id carries trigger_index: the data returned for the store.
\* Every path returns data as it was given:
\*   - no data or no dropdown value (692-693), nothing triggered (699-700);
\*   - no record of data has the id (the for loop ends);
\*   - a record has it: line 714 evaluates inputs_list[0]['id'], and
\*     inputs_list[0], the entry of an Input with the ALL wildcard, is the
\*     list of the dropdowns' {id, property, value}; indexing a list with a
\*     str raises TypeError, the bare except (724-727) passes, and neither
\*     line 718 (the record's category) nor line 721 (the call of
\*     update_transaction_category_in_dfs) is reached.
update_transaction_category(new_categories, data, trigger_index) ==
  IF data = <<>> \/ new_categories = <<>> THEN data
  ELSE IF \E k \in 1..Len(data) : data[k].id = trigger_index THEN data
  ELSE data

(***************************************************************************)
(* Inputs of categorize_transaction                                        *)
(***************************************************************************)

\* the longest description, in words
MaxWords == 2

\* words a statement line may be made of: keywords in either case, a keyword
\* shared by two categories, a word that merely contains a keyword, a word
\* with none, and the empty word
Words ==
  { 
    <<"C","A","R","R","E","F","O","U","R">>,  \* 'CARREFOUR'
    <<"c","a","f","e">>,  \* 'cafe'
    <<"U","b","e","r">>,  \* 'Uber'
    <<"e","a","t","s">>,  \* 'eats'
    <<"e","s","s","e","n","c","e">>,  \* 'essence'
    <<"a","s","s","u","r","a","n","c","e">>,  \* 'assurance'
    <<"v","i","r","e","m","e","n","t">>,  \* 'virement'
    <<"L","C","L">>,  \* 'LCL'
    <<"l","e","r","o","y">>,  \* 'leroy'
    <<"b","u","r","e","a","u">>,  \* 'bureau'
    <<"x","y","z">>,  \* 'xyz'
    <<>>   \* ''
  }



\* the words of ws separated by one space
RECURSIVE JoinWords(_)
JoinWords(ws) ==
  IF ws = <<>> THEN <<>>
  ELSE IF Len(ws) = 1 THEN ws[1]
  ELSE ws[1] \o <<" ">> \o JoinWords(Tail(ws))

Descriptions == {JoinWords(ws) : ws \in SeqsUpTo(Words, MaxWords)}



\* a description is chosen
InitCategorize ==
  /\ transaction_dfs = <<>>
  /\ store_data = <<>>
  /\ request = NoRequest
  /\ saved = NoFile
  /\ \E d \in Descriptions :
       out = [op |-> "input", description |-> d, result |-> ""]

\* categorize_transaction is applied to it
Categorize ==
  /\ out.op = "input"
  /\ out' = [out EXCEPT !.op = "categorize_transaction",
                        !.result = categorize_transaction(out.description)]
  /\ UNCHANGED <<transaction_dfs, store_data, saved, request>>

NextCategorize == Categorize

SpecCategorize == InitCategorize /\ [][NextCategorize]_vars


(***************************************************************************)
(* The derived views of every small collection (SpecBalance, SpecSpending) *)
(***************************************************************************)

\* the most transaction lines in the statements of one upload
MaxRows == 2

\* a statement file as OfxParser reads it: the first account's header and
\* its transaction lines
Statement(header, lines) ==
  [format |-> "ofx", account_id |-> header.account_id,
   account_type |-> "CHECKING", balance |-> header.balance,
   currency |-> "EUR", transactions |-> lines]

\* lines cut into consecutive non-empty pieces after the positions in cuts
SplitAt(lines, cuts) ==
  LET ends == cuts \cup {Len(lines)}
      End(k) == CHOOSE e \in ends : Cardinality({x \in ends : x <= e}) = k
  IN  [k \in 1..Cardinality(ends) |->
         SubSeq(lines, IF k = 1 THEN 1 ELSE End(k - 1) + 1, End(k))]

\* the uploads of one or more .ofx statements, with headers of headers_set,
\* that hold at most n lines of statement_lines together
StatementUploads(statement_lines, headers_set, n) ==
  UNION { UNION { { [k \in 1..Len(SplitAt(lines, cuts)) |->
                      [name |-> "ofx",
                       contents |-> Statement(headers[k], SplitAt(lines, cuts)[k])]] :
                    headers \in [1..(Cardinality(cuts) + 1) -> headers_set] } :
                  cuts \in SUBSET (1..(Len(lines) - 1)) } :
          lines \in SeqsUpTo(statement_lines, n) \ {<<>>} }

\* the text box 'manual-balance-input': empty, 0 or 500
ManualBalanceInputs ==
  { [given |-> FALSE, value |-> 0],
    [given |-> TRUE, value |-> 0],
    [given |-> TRUE, value |-> 500] }

\* no date range, or Jan 1 to Jan 2
Filters ==
  { NoFilter,
    [given |-> TRUE, start_date |-> 0, end_date |-> 1] }

\* Jan 1 00:00, Jan 1 12:00, Jan 2 00:00, Jan 3 00:00; an expense or an
\* income; two statements with different trailing balances
BalanceLines ==
  {[date |-> t, amount |-> a, memo |-> <<"c","a","f","e">>, payee |-> <<>>,
    type |-> "debit"] : t \in {0, 12, 24, 48}, a \in {-50, 100}}

StatementHeaders ==
  { [account_id |-> "ACC-A", balance |-> 200],
    [account_id |-> "ACC-B", balance |-> 70] }

\* statements have been uploaded
InitBalance ==
  /\ store_data = <<>>
  /\ request = NoRequest
  /\ saved = NoFile
  /\ \E files \in StatementUploads(BalanceLines, StatementHeaders, MaxRows) :
       LET uploaded == update_output(files)
       IN  /\ transaction_dfs = uploaded.dfs
           /\ out = [op |-> "update_output",
                     upload_results |-> uploaded.upload_results]

BalanceChart ==
  /\ \E filter \in Filters, manual_input \in ManualBalanceInputs :
       update_balance_chart(filter, manual_input)
  /\ UNCHANGED <<transaction_dfs, store_data, saved, request>>

NextBalance == BalanceChart

SpecBalance == InitBalance /\ [][NextBalance]_vars

\* expenses of two sizes, nothing, an income; a grocery ('Courses') or a
\* cafe ('Restaurants'); Jan 1 or Jan 3
SpendingLines ==
  {[date |-> t, amount |-> a, memo |-> m, payee |-> <<>>, type |-> "debit"] :
     t \in {0, 48}, a \in {-50, -20, 0, 100},
     m \in { <<"C","A","R","R","E","F","O","U","R">>, <<"c","a","f","e">> }}

InitSpending ==
  /\ store_data = <<>>
  /\ request = NoRequest
  /\ saved = NoFile
  /\ \E files \in StatementUploads(SpendingLines,
                     {[account_id |-> "ACC-A", balance |-> 200]}, MaxRows) :
       LET uploaded == update_output(files)
       IN  /\ transaction_dfs = uploaded.dfs
           /\ out = [op |-> "update_output",
                     upload_results |-> uploaded.upload_results]

PieChart ==
  /\ \E filter \in Filters : update_pie_chart(filter)
  /\ UNCHANGED <<transaction_dfs, store_data, saved, request>>

CategoryBarChart ==
  /\ \E filter \in Filters : update_category_bar_chart(filter)
  /\ UNCHANGED <<transaction_dfs, store_data, saved, request>>

NextSpending == PieChart \/ CategoryBarChart

SpecSpending == InitSpending /\ [][NextSpending]_vars

(***************************************************************************)
(* Category edits on an uploaded collection (SpecEdit)                     *)
(***************************************************************************)

\* two cafe expenses, on Jan 1 and on Jan 3
EditLines ==
  {[date |-> t, amount |-> -50, memo |-> <<"c","a","f","e">>, payee |-> <<>>,
    type |-> "debit"] : t \in {0, 48}}

\* what an edit may carry as new category: a member of the enumerated set
\* and a string that is none
EditValues == {"Courses", "Foo"}

\* the category of every held transaction, batch by batch
CategoriesOf(dfs) ==
  [i \in 1..Len(dfs) |-> [j \in 1..Len(dfs[i].rows) |-> dfs[i].rows[j].category]]

CategoriesOfRows(rows) == [k \in 1..Len(rows) |-> rows[k].category]

\* statements have been uploaded
InitEdit ==
  /\ store_data = <<>>
  /\ request = NoRequest
  /\ saved = NoFile
  /\ \E files \in StatementUploads(EditLines,
                     {[account_id |-> "ACC-A", balance |-> 200]}, MaxRows) :
       LET uploaded == update_output(files)
       IN  /\ transaction_dfs = uploaded.dfs
           /\ out = [op |-> "update_output",
                     upload_results |-> uploaded.upload_results]

\* the transactions table is rendered and its records are stored
TransactionsTable ==
  /\ \E filter \in Filters :
       /\ store_data' = update_transactions_table(transaction_dfs, filter,
                          IdsOfDfs(transaction_dfs) \cup IdsOfFile(saved))
       /\ out' = [op |-> "update_transactions_table", filter |-> filter]
  /\ UNCHANGED <<transaction_dfs, saved, request>>

\* the user picks value in the dropdown of the k-th row of the table
CategoryDropdown ==
  /\ \E k \in 1..Len(store_data), value \in EditValues :
       LET new_categories ==
             [j \in 1..Len(store_data) |->
                IF j = k THEN value ELSE store_data[j].category]
       IN  /\ store_data' = update_transaction_category(new_categories,
                              store_data, store_data[k].id)
           /\ out' = [op |-> "update_transaction_category",
                      transaction_id |-> store_data[k].id,
                      new_category |-> value,
                      shown |-> store_data[k],
                      held_before |-> CategoriesOf(transaction_dfs),
                      store_before |-> CategoriesOfRows(store_data)]
  /\ UNCHANGED <<transaction_dfs, saved, request>>

\* the store's edit operation is called with an identifier that a held
\* frame or the table holds, or with one that nothing holds (-1)
EditCategoryInDfs ==
  /\ \E transaction_id \in IdsOfDfs(transaction_dfs) \cup IdsOfRows(store_data)
                             \cup {-1},
        new_category \in EditValues :
       /\ transaction_dfs' =
            update_transaction_category_in_dfs(transaction_dfs, transaction_id,
              new_category,
              IdsOfDfs(transaction_dfs) \cup IdsOfRows(store_data)
                \cup IdsOfFile(saved))
       /\ out' = [op |-> "update_transaction_category_in_dfs",
                  transaction_id |-> transaction_id,
                  new_category |-> new_category,
                  held_before |-> CategoriesOf(transaction_dfs),
                  store_before |-> CategoriesOfRows(store_data)]
  /\ UNCHANGED <<store_data, saved, request>>

NextEdit == TransactionsTable \/ CategoryDropdown \/ EditCategoryInDfs \/ PieChart

SpecEdit == InitEdit /\ [][NextEdit]_vars

(***************************************************************************)
(* The application's uploads (Spec)                                        *)
(***************************************************************************)

\* the most files in one upload
MaxFiles == 2

\* archives are uploaded while the collection holds at most this many
\* transactions
MaxHeld == 3

Line(t, a, memo) ==
  [date |-> t, amount |-> a, memo |-> memo, payee |-> <<>>, type |-> "debit"]

\* bytes that are neither a statement nor an archive
Garbage == [format |-> "garbage"]

\* a statement with one expense, one with one income, one without lines
CafeStatement ==
  Statement([account_id |-> "ACC-A", balance |-> 200],
            <<Line(0, -50, <<"c","a","f","e">>)>>)
SalaryStatement ==
  Statement([account_id |-> "ACC-B", balance |-> 70],
            <<Line(48, 100, <<"s","a","l","a","i","r","e">>)>>)
NoLinesStatement == Statement([account_id |-> "ACC-A", balance |-> 200], <<>>)

\* an archive written by another tool: the required columns only, a
\* category of its own and a null category
ForeignRow(t, a, category) ==
  [date |-> t, amount |-> a, description |-> <<"x","y","z">>, type |-> NaText,
   category |-> category, account_id |-> NaText, account_type |-> NaText,
   balance |-> 0, currency |-> NaText, id |-> 0]
ForeignArchive ==
  [format |-> "parquet", columns |-> required_columns,
   rows |-> <<ForeignRow(24, -30, "Foo"), ForeignRow(24, -5, NaText)>>]

\* an archive without category column
NoCategoryArchive ==
  [format |-> "parquet", columns |-> {"date", "amount", "description"},
   rows |-> <<ForeignRow(24, -30, NaText)>>]

BankFiles ==
  { [name |-> "ofx", contents |-> CafeStatement],
    [name |-> "ofc", contents |-> SalaryStatement],
    [name |-> "ofx", contents |-> NoLinesStatement],
    [name |-> "ofx", contents |-> Garbage],
    [name |-> "txt", contents |-> CafeStatement] }

\* an archive saved in an earlier session, from the salary statement: it
\* has every column of a statement
EarlierArchive == save_transactions_to_parquet(<<parse_ofx(SalaryStatement)>>)

\* the archives at hand: the foreign ones and the one saved earlier
ParquetFiles ==
  { [name |-> "parquet", contents |-> ForeignArchive],
    [name |-> "parquet", contents |-> NoCategoryArchive],
    [name |-> "txt", contents |-> ForeignArchive],
    [name |-> "parquet", contents |-> EarlierArchive] }

Init ==
  /\ transaction_dfs = <<>>
  /\ store_data = <<>>
  /\ request = NoRequest
  /\ saved = NoFile
  /\ out = [op |-> "start"]

\* update_output with one of uploads: the collection is replaced by the
\* parsed statements
UploadBankOf(uploads) ==
  /\ \E files \in uploads :
       LET uploaded == update_output(files)
       IN  /\ transaction_dfs' = uploaded.dfs
           /\ out' = [op |-> "update_output", files |-> files,
                      upload_results |-> uploaded.upload_results]
  /\ UNCHANGED <<store_data, saved, request>>

UploadBank == UploadBankOf(SeqsUpTo(BankFiles, MaxFiles) \ {<<>>})

\* update_output_parquet, did it replace the collection as a bank upload
\* does
UploadParquetReplacing(uploads, held) ==
  /\ \E files \in uploads :
       LET uploaded == update_output_parquet(files)
       IN  /\ Len(concat(transaction_dfs \o uploaded.dfs).rows) <= held
           /\ transaction_dfs' = uploaded.dfs
           /\ out' = [op |-> "update_output_parquet", files |-> files,
                      upload_results |-> uploaded.upload_results]
  /\ UNCHANGED <<store_data, saved, request>>

\* update_output_parquet with one of uploads, while at most held
\* transactions result: the collection is extended by the loaded archives
UploadParquetUpTo(uploads, held) ==
  /\ \E files \in uploads :
       LET uploaded == update_output_parquet(files)
       IN  /\ Len(concat(transaction_dfs \o uploaded.dfs).rows) <= held
           /\ transaction_dfs' = transaction_dfs \o uploaded.dfs
           /\ out' = [op |-> "update_output_parquet", files |-> files,
                      upload_results |-> uploaded.upload_results]
  /\ UNCHANGED <<store_data, saved, request>>

UploadParquetOf(uploads) == UploadParquetUpTo(uploads, MaxHeld)

UploadParquet == UploadParquetOf(SeqsUpTo(ParquetFiles, MaxFiles) \ {<<>>})

\* save_transactions, did it leave the merged table in the collection
SaveTransactionsMerging ==
  /\ LET written == IF transaction_dfs = <<>> THEN NoFile
                    ELSE save_transactions_to_parquet(transaction_dfs)
     IN  /\ saved' = IF written = NoFile THEN saved ELSE written
         /\ transaction_dfs' = IF transaction_dfs = <<>> THEN <<>>
                               ELSE <<concat(transaction_dfs)>>
         /\ out' = [op |-> "save_transactions", success |-> written # NoFile]
  /\ UNCHANGED <<store_data, request>>

\* save_transactions(n_clicks): a new file is written unless nothing is held
SaveTransactions ==
  /\ LET written == IF transaction_dfs = <<>> THEN NoFile
                    ELSE save_transactions_to_parquet(transaction_dfs)
     IN  /\ saved' = IF written = NoFile THEN saved ELSE written
         /\ out' = [op |-> "save_transactions", success |-> written # NoFile]
  /\ UNCHANGED <<transaction_dfs, store_data, request>>

Next == UploadBank \/ UploadParquet

Spec == Init /\ [][Next]_vars

(***************************************************************************)
(* Edits, saves and archive uploads on uploaded statements (SpecArchive)   *)
(***************************************************************************)

\* one or two statements have been uploaded
InitArchive ==
  /\ store_data = <<>>
  /\ request = NoRequest
  /\ saved = NoFile
  /\ \E files \in SeqsUpTo({ [name |-> "ofx", contents |-> CafeStatement],
                             [name |-> "ofc", contents |-> SalaryStatement] },
                           MaxFiles) \ {<<>>} :
       LET uploaded == update_output(files)
       IN  /\ transaction_dfs = uploaded.dfs
           /\ out = [op |-> "update_output", files |-> files,
                     upload_results |-> uploaded.upload_results]

\* the file last saved is uploaded as an archive
ReloadSaved ==
  /\ saved # NoFile
  /\ UploadParquetOf({<<[name |-> "parquet", contents |-> saved]>>})

\* a malformed statement is uploaded: nothing is held afterwards
UploadMalformed == UploadBankOf({<<[name |-> "ofx", contents |-> Garbage]>>})

NextArchive ==
  EditCategoryInDfs \/ SaveTransactions \/ ReloadSaved \/ UploadMalformed

SpecArchive == InitArchive /\ [][NextArchive]_vars

(***************************************************************************)
(* The two view functions on arbitrary lists of frames (SpecFunctions)     *)
(***************************************************************************)

\* a frame whose balance column holds text: one expense on Jan 2
TextBalanceFrame ==
  [columns |-> OfxColumns,
   rows |-> <<[date |-> 24, amount |-> -30, description |-> <<"c","a","f","e">>,
               type |-> "debit", category |-> "Restaurants",
               account_id |-> "ACC-C", account_type |-> "CHECKING",
               balance |-> 0, currency |-> "EUR", id |-> 0]>>,
   text_columns |-> {"balance"}]

\* the frames a list may hold: without columns, without rows, with an
\* expense, with an income, with a balance that is no number
InputFrames ==
  { EmptyDataFrame, parse_ofx(NoLinesStatement), parse_ofx(CafeStatement),
    parse_ofx(SalaryStatement), TextBalanceFrame }

InitFunctions ==
  /\ transaction_dfs = <<>>
  /\ store_data = <<>>
  /\ request = NoRequest
  /\ saved = NoFile
  /\ \E dfs \in SeqsUpTo(InputFrames, MaxFiles) :
       out = [op |-> "input", dfs |-> dfs]

\* get_balance_over_time(dfs, manual_balance)
Reconstruct ==
  /\ \E manual_balance \in {0, 500} :
       out' = [op |-> "get_balance_over_time", dfs |-> out.dfs,
               manual_balance |-> manual_balance,
               result |-> get_balance_over_time(out.dfs, manual_balance)]
  /\ UNCHANGED <<transaction_dfs, store_data, saved, request>>

\* get_spending_by_category(dfs)
AggregateSpending ==
  /\ out' = [op |-> "get_spending_by_category", dfs |-> out.dfs,
             result |-> get_spending_by_category(out.dfs)]
  /\ UNCHANGED <<transaction_dfs, store_data, saved, request>>

NextFunctions == Reconstruct \/ AggregateSpending

SpecFunctions == InitFunctions /\ [][NextFunctions]_vars

(***************************************************************************)
(* Requests served by threads (SpecConcurrent): app.run_server             *)
(* (app.py:808) serves each callback request in a thread of its own and    *)
(* the callbacks take no lock, so a view callback can run between two      *)
(* statements of update_output                                             *)
(***************************************************************************)

ConcurrentFiles ==
  { [name |-> "ofx", contents |-> CafeStatement],
    [name |-> "ofc", contents |-> SalaryStatement],
    [name |-> "ofx", contents |-> Garbage] }

ConcurrentUploads == SeqsUpTo(ConcurrentFiles, MaxFiles) \ {<<>>}

InitConcurrent ==
  /\ \E files \in SeqsUpTo(ConcurrentFiles, MaxFiles) :
       transaction_dfs = update_output(files).dfs
  /\ store_data = <<>>
  /\ request = NoRequest
  /\ saved = NoFile
  /\ out = [op |-> "none"]

\* update_output up to its for loop (app.py:248-255): the collection is
\* rebound to an empty list; before is what was held when the request came
UploadBegin ==
  /\ request = NoRequest
  /\ \E files \in ConcurrentUploads :
       /\ request' = [op |-> "update_output", files |-> files, i |-> 1,
                      upload_results |-> <<>>, before |-> transaction_dfs]
       /\ out' = [op |-> "upload-data", files |-> files]
  /\ transaction_dfs' = <<>>
  /\ UNCHANGED <<store_data, saved>>

\* one iteration of the for loop of update_output (app.py:256-283)
UploadFile ==
  /\ request.op = "update_output"
  /\ request.i <= Len(request.files)
  /\ LET step == update_output_loop(SubSeq(request.files, 1, request.i),
                   request.i, transaction_dfs, request.upload_results)
     IN  /\ transaction_dfs' = step.dfs
         /\ request' = [request EXCEPT !.i = @ + 1,
                          !.upload_results = step.upload_results]
  /\ UNCHANGED <<store_data, saved, out>>

\* update_output after its loop (app.py:285-295): the outcomes are returned
UploadReturn ==
  /\ request.op = "update_output"
  /\ request.i > Len(request.files)
  /\ out' = [op |-> "update_output", files |-> request.files,
             upload_results |-> request.upload_results]
  /\ request' = NoRequest
  /\ UNCHANGED <<transaction_dfs, store_data, saved>>

NextConcurrent ==
  \/ UploadBegin
  \/ UploadFile
  \/ UploadReturn
  \/ BalanceChart
  \/ PieChart
  \/ TransactionsTable

SpecConcurrent == InitConcurrent /\ [][NextConcurrent]_vars

(***************************************************************************)
(* The statement parsers on every small statement (SpecParse)              *)
(***************************************************************************)

Cafe == <<"c","a","f","e">>
Lidl == <<"L","I","D","L">>

\* lines with a memo, a payee, both, empty ones or none, and a line whose
\* amount is no number
ParseLines ==
  { [date |-> 0, amount |-> -50, type |-> "debit", memo |-> Cafe, payee |-> Lidl],
    [date |-> 0, amount |-> -50, type |-> "debit", memo |-> <<>>, payee |-> Lidl],
    [date |-> 0, amount |-> -50, type |-> "debit", payee |-> Lidl],
    [date |-> 0, amount |-> -50, type |-> "debit", memo |-> Cafe],
    [date |-> 0, amount |-> -50, type |-> "debit", memo |-> <<>>, payee |-> <<>>],
    [date |-> 0, amount |-> -50, type |-> "debit", memo |-> <<>>],
    [date |-> 0, amount |-> -50, type |-> "debit"],
    [date |-> 0, type |-> "debit", memo |-> Cafe, payee |-> Lidl] }

\* the file contents given to the parsers: statements of at most MaxRows
\* lines under either header, and bytes that are no statement
ParseInputs ==
  {Garbage} \cup
  {Statement(header, lines) :
     header \in StatementHeaders, lines \in SeqsUpTo(ParseLines, MaxRows)}

InitParse ==
  /\ transaction_dfs = <<>>
  /\ store_data = <<>>
  /\ request = NoRequest
  /\ saved = NoFile
  /\ \E contents \in ParseInputs : out = [op |-> "input", contents |-> contents]

ParseOfx ==
  /\ out.op = "input"
  /\ out' = [op |-> "parse_ofx", contents |-> out.contents,
             result |-> parse_ofx(out.contents)]
  /\ UNCHANGED <<transaction_dfs, store_data, saved, request>>

ParseOfc ==
  /\ out.op = "input"
  /\ out' = [op |-> "parse_ofc", contents |-> out.contents,
             result |-> parse_ofc(out.contents)]
  /\ UNCHANGED <<transaction_dfs, store_data, saved, request>>

NextParse == ParseOfx \/ ParseOfc

SpecParse == InitParse /\ [][NextParse]_vars

(***************************************************************************)
(* Views and exports on uploaded statements (SpecFrame)                    *)
(***************************************************************************)

\* every chart, the table and the export are requested in any order on one
\* or two uploaded statements; a malformed upload empties the collection
NextFrame ==
  \/ BalanceChart
  \/ PieChart
  \/ CategoryBarChart
  \/ TransactionsTable
  \/ SaveTransactions
  \/ UploadMalformed

SpecFrame == InitArchive /\ [][NextFrame]_vars

(***************************************************************************)
(* Exports and re-imports of uploaded statements (SpecReimport)            *)
(***************************************************************************)

\* the saved file is uploaded while at most this many transactions result
MaxReloaded == 4

\* the file last saved is uploaded as an archive
ReimportSaved ==
  /\ saved # NoFile
  /\ UploadParquetUpTo({<<[name |-> "parquet", contents |-> saved]>>},
                       MaxReloaded)

\* a statement with one expense at a grocery
LidlStatement ==
  Statement([account_id |-> "ACC-A", balance |-> 200],
            <<Line(24, -20, <<"L","I","D","L">>)>>)

\* one or two of three statements have been uploaded
InitReimport ==
  /\ store_data = <<>>
  /\ request = NoRequest
  /\ saved = NoFile
  /\ \E files \in SeqsUpTo({ [name |-> "ofx", contents |-> CafeStatement],
                             [name |-> "ofc", contents |-> SalaryStatement],
                             [name |-> "ofx", contents |-> LidlStatement] },
                           MaxFiles) \ {<<>>} :
       LET uploaded == update_output(files)
       IN  /\ transaction_dfs = uploaded.dfs
           /\ out = [op |-> "update_output", files |-> files,
                     upload_results |-> uploaded.upload_results]

NextReimport == SaveTransactions \/ ReimportSaved \/ UploadMalformed

SpecReimport == InitReimport /\ [][NextReimport]_vars

(***************************************************************************)
(* Claims about categorize_transaction (SpecCategorize)                    *)
(***************************************************************************)

\* positions of the categories that declare a keyword occurring, as
\* declared, in the lowercased description
MatchingCategories(d) ==
  {i \in 1..Len(categories) :
     \E j \in 1..Len(categories[i].keywords) :
        IsSubstring(categories[i].keywords[j], Lower(d))}

\* positions of the categories that declare a keyword occurring in the
\* description when case is ignored on both sides
OwnersIgnoringCase(d) ==
  {i \in 1..Len(categories) :
     \E j \in 1..Len(categories[i].keywords) :
        IsSubstring(Lower(categories[i].keywords[j]), Lower(d))}

\* C6: when keywords of one or several categories occur in the lowercased
\* description, the category returned is the earliest declared of them;
\* neither the number nor the length of the matching keywords matters.
C6_FirstDeclaredCategoryWins ==
  out.op = "categorize_transaction" =>
    LET hits == MatchingCategories(out.description)
    IN  hits # {} =>
          \E i \in hits :
             /\ \A h \in hits : i <= h
             /\ out.result = categories[i].category

\* a description with keywords of several categories was categorized
C6_Witness ==
  /\ out.op = "categorize_transaction"
  /\ Cardinality(MatchingCategories(out.description)) >= 2
  /\ out.result # DefaultCategory

\* C7: a description whose keywords (case ignored, as the match is meant to
\* be case-insensitive) all belong to one category gets that category, and a
\* description with no keyword gets 'Autre'.
C7_UniqueKeywordDecides ==
  out.op = "categorize_transaction" =>
    LET owners == OwnersIgnoringCase(out.description)
    IN  /\ \A i \in owners :
             owners = {i} => out.result = categories[i].category
        /\ owners = {} => out.result = DefaultCategory


\* the description is empty or made of spaces only
Blank(d) == \A k \in 1..Len(d) : d[k] = " "

\* C18: an empty description and a description of whitespace only are
\* given the fallback category 'Autre'.
C18_BlankDescription ==
  (out.op = "categorize_transaction" /\ Blank(out.description)) =>
    out.result = "Autre"

\* a description of one space was categorised
C18_Witness ==
  /\ out.op = "categorize_transaction"
  /\ out.description = <<" ">>
  /\ out.result = "Autre"

\* the labels categorize_transaction returns for the declared keywords and
\* for the empty description
ReturnedForKeywords ==
  {categorize_transaction(<<>>)} \cup
  UNION {{categorize_transaction(categories[i].keywords[j]) :
             j \in 1..Len(categories[i].keywords)} :
          i \in 1..Len(categories)}

\* the labels categorize_transaction can return: the declared categories and
\* the default
DeclaredLabels ==
  {categories[i].category : i \in 1..Len(categories)} \cup {DefaultCategory}

\* C24: the list of get_available_categories matches categorize_transaction:
\* every label categorize_transaction can return (each declared category
\* and 'Autre') is in the list, and every label of the list is returned by
\* categorize_transaction for at least one description.
C24_ListMatchesCategorize ==
  /\ DeclaredLabels \subseteq get_available_categories
  /\ out.op = "categorize_transaction" =>
       out.result \in get_available_categories
  /\ get_available_categories \subseteq ReturnedForKeywords

\* a description was given the label 'Maison', whose namesake keyword
\* 'maison' is declared by another category
C24_Witness ==
  /\ out.op = "categorize_transaction"
  /\ out.result = "Maison"
  /\ out.result \in get_available_categories
(***************************************************************************)
(* Claims about the balance series (SpecBalance)                           *)
(***************************************************************************)

\* the places (batch, row) of the held transactions
HeldPlaces ==
  UNION {{<<i, j>> : j \in 1..Len(transaction_dfs[i].rows)} :
           i \in 1..Len(transaction_dfs)}

HeldRow(p) == transaction_dfs[p[1]].rows[p[2]]

\* the sum of the amounts of the held transactions at the places P
RECURSIVE SumAt(_)
SumAt(P) ==
  IF P = {} THEN 0
  ELSE LET p == CHOOSE q \in P : TRUE
       IN  HeldRow(p).amount + SumAt(P \ {p})

\* the held transactions are {2024-01-01: -50, 2024-01-03: +100}
HeldIsExample ==
  /\ Cardinality(HeldPlaces) = 2
  /\ {<<HeldRow(p).date, HeldRow(p).amount>> : p \in HeldPlaces} =
       {<<0, -50>>, <<48, 100>>}

BalancesOf(series) == [i \in 1..Len(series) |-> series[i].balance]

\* C1: with a non-zero anchor, the starting balance is the anchor minus the
\* amounts of all transactions of all batches, whatever the batches' trailing
\* balances; the example {Jan 1: -50, Jan 3: +100} with anchor 500 starts at
\* 450 and gives the balances 400, 400, 500.
C1_AnchorStartingBalance ==
  (out.op = "update_balance_chart" /\ out.manual_balance # 0) =>
    /\ out.starting_balance = out.manual_balance - SumAt(HeldPlaces)
    /\ (HeldIsExample /\ out.manual_balance = 500) =>
         /\ out.starting_balance = 450
         /\ BalancesOf(out.balance_df) = <<400, 400, 500>>

\* the example of C1 was computed over two batches
C1_Witness ==
  /\ out.op = "update_balance_chart"
  /\ out.manual_balance = 500
  /\ HeldIsExample
  /\ Len(transaction_dfs) = 2
  /\ BalancesOf(out.balance_df) = <<400, 400, 500>>

\* C2: without anchor (absent or zero) the starting balance is the trailing
\* balance of the first record of the first batch minus the amounts of the
\* first batch only; the example in one batch with trailing balance 200
\* starts at 150 and gives the balances 100, 100, 200.
C2_FileStartingBalance ==
  (out.op = "update_balance_chart" /\ out.manual_balance = 0) =>
    /\ out.starting_balance =
         HeldRow(<<1, 1>>).balance - SumAt({p \in HeldPlaces : p[1] = 1})
    /\ (HeldIsExample /\ Len(transaction_dfs) = 1
          /\ HeldRow(<<1, 1>>).balance = 200) =>
         /\ out.starting_balance = 150
         /\ BalancesOf(out.balance_df) = <<100, 100, 200>>

\* the starting balance was computed without anchor while a second batch
\* with another trailing balance and a non-zero total was held
C2_Witness ==
  /\ out.op = "update_balance_chart"
  /\ out.manual_balance = 0
  /\ Len(transaction_dfs) = 2
  /\ HeldRow(<<2, 1>>).balance # HeldRow(<<1, 1>>).balance
  /\ SumAt({p \in HeldPlaces : p[1] = 2}) # 0
  /\ out.starting_balance =
       HeldRow(<<1, 1>>).balance - SumAt({p \in HeldPlaces : p[1] = 1})

\* C3: every entry of the series is the starting balance plus the amounts of
\* all transactions whose calendar day is on or before the entry's day, at
\* any time of day; the last entry is the starting balance plus all amounts.
C3_BalanceIsCumulative ==
  out.op = "update_balance_chart" =>
    LET series == out.balance_df
    IN  /\ \A i \in 1..Len(series) :
             series[i].balance =
               out.starting_balance
               + SumAt({p \in HeldPlaces :
                          DayOf(HeldRow(p).date) <= DayOf(series[i].date)})
        /\ series # <<>> =>
             series[Len(series)].balance =
               out.starting_balance + SumAt(HeldPlaces)

\* C4: the series has one entry per calendar day from the day of the
\* earliest transaction to the day of the latest, in order, without gap.
C4_OneEntryPerCalendarDay ==
  out.op = "update_balance_chart" =>
    LET days == {DayOf(HeldRow(p).date) : p \in HeldPlaces}
        series == out.balance_df
    IN  /\ Len(series) = Max(days) - Min(days) + 1
        /\ \A i \in 1..Len(series) :
             DayOf(series[i].date) = Min(days) + i - 1

(***************************************************************************)
(* Claims about the category totals (SpecSpending)                         *)
(***************************************************************************)

\* the sum of the absolute amounts of the held transactions at the places P
RECURSIVE SumAbsAt(_)
SumAbsAt(P) ==
  IF P = {} THEN 0
  ELSE LET p == CHOOSE q \in P : TRUE
       IN  Abs(HeldRow(p).amount) + SumAbsAt(P \ {p})

ExpensePlaces(category) ==
  {p \in HeldPlaces : HeldRow(p).amount < 0 /\ HeldRow(p).category = category}

\* C5: over the whole collection (no date filter), the categories of the
\* result are exactly those of the transactions with amount < 0, once each,
\* and each total is the sum of the absolute amounts of those transactions
\* of all batches; transactions with amount >= 0 count for nothing.
C5_SpendingByCategory ==
  (out.op \in {"update_pie_chart", "update_category_bar_chart"}
     /\ ~out.filter.given) =>
    LET spending == out.figure
    IN  /\ \A i \in 1..Len(spending) :
             /\ ExpensePlaces(spending[i].category) # {}
             /\ spending[i].amount = SumAbsAt(ExpensePlaces(spending[i].category))
        /\ \A i, j \in 1..Len(spending) :
             spending[i].category = spending[j].category => i = j
        /\ \A p \in HeldPlaces :
             HeldRow(p).amount < 0 =>
               \E i \in 1..Len(spending) :
                  spending[i].category = HeldRow(p).category

\* the total of one category was computed over expenses of two batches
C5_Witness ==
  /\ out.op = "update_pie_chart"
  /\ ~out.filter.given
  /\ Len(transaction_dfs) = 2
  /\ \E c \in {"Courses", "Restaurants"} :
       /\ \A i \in 1..2 : \E p \in ExpensePlaces(c) : p[1] = i
       /\ out.figure = <<[category |-> c, amount |-> SumAbsAt(ExpensePlaces(c))]>>


\* C17: the totals of the result are in descending order, entries of equal
\* total included.
C17_DescendingTotals ==
  out.op \in {"update_pie_chart", "update_category_bar_chart"} =>
    \A i \in 1..(Len(out.figure) - 1) :
       out.figure[i].amount >= out.figure[i + 1].amount

\* the larger total of the later key comes first
C17_Witness ==
  /\ out.op = "update_category_bar_chart"
  /\ Len(out.figure) = 2
  /\ out.figure[1].category = "Restaurants"
  /\ out.figure[2].category = "Courses"
  /\ out.figure[1].amount > out.figure[2].amount

\* the held transactions whose calendar day lies within the filter
PlacesWithin(filter) ==
  {p \in HeldPlaces : /\ DayOf(HeldRow(p).date) >= filter.start_date
                      /\ DayOf(HeldRow(p).date) <= filter.end_date}

\* C21: with a date filter, the category totals are those of the expenses
\* dated within the filter, and the balance series is the reconstruction of
\* the transactions dated within the filter alone.
C21_ViewsOverFilteredTransactions ==
  /\ (out.op = "update_balance_chart" /\ out.filter.given) =>
       out.figure =
         get_balance_over_time(
           [i \in 1..Len(transaction_dfs) |->
              [transaction_dfs[i] EXCEPT !.rows =
                 SeqFilter(@, LAMBDA r :
                   /\ DayOf(r.date) >= out.filter.start_date
                   /\ DayOf(r.date) <= out.filter.end_date)]],
           out.manual_balance)
  /\ (out.op \in {"update_pie_chart", "update_category_bar_chart"}
        /\ out.filter.given) =>
       \A i \in 1..Len(out.figure) :
          out.figure[i].amount =
            SumAbsAt(ExpensePlaces(out.figure[i].category)
                       \cap PlacesWithin(out.filter))
(***************************************************************************)
(* Claims about category edits (SpecEdit)                                  *)
(***************************************************************************)

\* the held record r is the transaction shown as the table record t
SameTransaction(r, t) ==
  /\ DayOf(r.date) = t.date
  /\ r.amount = t.amount
  /\ r.description = t.description

\* C8: after the user has picked a valid category c in the dropdown of a
\* transaction t of the table, a held record of t has category c.
C8_EditReachesHeldCollection ==
  (out.op = "update_transaction_category"
     /\ out.new_category \in get_available_categories) =>
    \E p \in HeldPlaces :
       /\ SameTransaction(HeldRow(p), out.shown)
       /\ HeldRow(p).category = out.new_category

\* C9: an edit whose new value is not in the enumerated set leaves every
\* category as it was, in the held collection and in the table's records.
C9_InvalidEditRejected ==
  (out.op \in {"update_transaction_category", "update_transaction_category_in_dfs"}
     /\ out.new_category \notin get_available_categories) =>
    /\ CategoriesOf(transaction_dfs) = out.held_before
    /\ CategoriesOfRows(store_data) = out.store_before

\* the fields of a record that no edit may change
Unedited(r) ==
  [date |-> r.date, amount |-> r.amount, description |-> r.description,
   type |-> r.type, account_id |-> r.account_id,
   account_type |-> r.account_type, balance |-> r.balance,
   currency |-> r.currency]

\* C20: a category edit keeps the number of batches and the number of
\* records of each batch, changes none of date, amount, description, type,
\* account_id, account_type, balance, currency of any record, and changes
\* the category of at most one record.
C20_EditFrame ==
  [][ out'.op \in {"update_transaction_category",
                   "update_transaction_category_in_dfs"} =>
        /\ Len(transaction_dfs') = Len(transaction_dfs)
        /\ \A i \in 1..Len(transaction_dfs) :
             Len(transaction_dfs'[i].rows) = Len(transaction_dfs[i].rows)
        /\ \A p \in HeldPlaces :
             Unedited(transaction_dfs'[p[1]].rows[p[2]]) = Unedited(HeldRow(p))
        /\ Cardinality({p \in HeldPlaces :
             transaction_dfs'[p[1]].rows[p[2]].category # HeldRow(p).category})
             <= 1 ]_vars

(***************************************************************************)
(* Claims about the held collection under uploads (Spec)                   *)
(***************************************************************************)

\* C10: the category of every held transaction is a member of the
\* enumerated category set (so never null or empty), whatever has been
\* uploaded.
C10_CategoriesEnumerated ==
  \A p \in HeldPlaces : HeldRow(p).category \in get_available_categories

\* the frame the upload callbacks get from one file: the parser is chosen
\* by the file's extension
FrameOf(file) ==
  CASE file.name = "ofx" -> parse_ofx(file.contents)
    [] file.name = "ofc" -> parse_ofc(file.contents)
    [] file.name = "parquet" -> load_transactions_from_parquet(file.contents)
    [] OTHER -> EmptyDataFrame

\* the non-empty frames of the files of an upload, in the files' order
BatchesOf(files) ==
  SeqFilter([i \in 1..Len(files) |-> FrameOf(files[i])], LAMBDA df : ~empty(df))

\* C11: a bank-format upload leaves exactly the batches parsed from its
\* files in the collection; an archival upload leaves every batch held
\* before, unchanged and in order, followed by the batches it loaded.
C11_ReplaceOrExtend ==
  [][ /\ out'.op = "update_output" =>
           transaction_dfs' = BatchesOf(out'.files)
      /\ out'.op = "update_output_parquet" =>
           transaction_dfs' = transaction_dfs \o BatchesOf(out'.files) ]_vars

\* an archival upload of one file was added to a statement's batch
C11_Witness ==
  /\ out.op = "update_output_parquet"
  /\ Len(out.files) = 1
  /\ Len(transaction_dfs) = 2
  /\ "type" \in transaction_dfs[1].columns
  /\ transaction_dfs[2] = load_transactions_from_parquet(ForeignArchive)

\* the number of files of an upload reported as parsed
ParsedCount(upload_results) ==
  Cardinality({i \in 1..Len(upload_results) : upload_results[i].outcome = "parsed"})

\* C12: every file of an upload has one outcome that depends on the file
\* alone: success with the number of its transactions when it yields
\* transactions, a failure otherwise; the files that fail add no batch, and
\* every file that succeeds adds its batch.
C12_OutcomePerFile ==
  out.op \in {"update_output", "update_output_parquet"} =>
    LET files == out.files
        upload_results == out.upload_results
        n == Len(transaction_dfs)
        added == SubSeq(transaction_dfs, n - ParsedCount(upload_results) + 1, n)
    IN  /\ Len(upload_results) = Len(files)
        /\ \A i \in 1..Len(files) :
             /\ upload_results[i].file = i
             /\ IF empty(FrameOf(files[i]))
                THEN upload_results[i].outcome \in {"error", "unsupported"}
                ELSE /\ upload_results[i].outcome = "parsed"
                     /\ upload_results[i].count = Len(FrameOf(files[i]).rows)
        /\ ParsedCount(upload_results) <= n
        /\ added = BatchesOf(files)
        /\ out.op = "update_output" => n = ParsedCount(upload_results)

\* a malformed file was uploaded before a valid statement, whose batch is
\* all that is held
C12_Witness ==
  /\ out.op = "update_output"
  /\ Len(out.files) = 2
  /\ out.files[1].contents = Garbage
  /\ out.upload_results[1].outcome = "error"
  /\ out.upload_results[2] = [file |-> 2, outcome |-> "parsed", count |-> 1]
  /\ transaction_dfs = <<parse_ofx(CafeStatement)>>


\* C26: every held batch has at least one transaction: both upload
\* callbacks append non-empty parse results only, a well-formed statement
\* with no transaction being reported as an error and not retained, so the
\* first batch is never empty.
C26_NoEmptyBatch ==
  /\ \A i \in 1..Len(transaction_dfs) : Len(transaction_dfs[i].rows) >= 1
  /\ out.op \in {"update_output", "update_output_parquet"} =>
       \A i \in 1..Len(out.files) :
          empty(FrameOf(out.files[i])) =>
             out.upload_results[i].outcome \in {"error", "unsupported"}

\* a statement without transactions was uploaded before a statement with
\* one: it is reported as an error and the other batch alone is held
C26_Witness ==
  /\ out.op = "update_output"
  /\ Len(out.files) = 2
  /\ out.files[1] = [name |-> "ofx", contents |-> NoLinesStatement]
  /\ out.upload_results[1].outcome = "error"
  /\ Len(transaction_dfs) = 1
  /\ Len(transaction_dfs[1].rows) = 1
(***************************************************************************)
(* Claims about archives (SpecArchive, Spec)                               *)
(***************************************************************************)

\* the four mandatory fields of a record
Mandatory(r) ==
  [date |-> r.date, amount |-> r.amount, description |-> r.description,
   category |-> r.category]

LacksMandatory(file) ==
  /\ file.name = "parquet"
  /\ file.contents.format = "parquet"
  /\ ~(required_columns \subseteq file.contents.columns)

\* C14: an archive that lacks a mandatory field gives no batch, and what
\* its load returns and reports differs from what the load of unreadable
\* bytes returns and reports.
C14_MissingFieldOutcome ==
  out.op = "update_output_parquet" =>
    \A i \in 1..Len(out.files) :
       LacksMandatory(out.files[i]) =>
         /\ empty(load_transactions_from_parquet(out.files[i].contents))
         /\ load_transactions_from_parquet(out.files[i].contents)
              # load_transactions_from_parquet(Garbage)
         /\ out.upload_results[i].outcome #
              update_output_parquet(
                <<[name |-> "parquet", contents |-> Garbage]>>).upload_results[1].outcome

\* the batch that the i-th file of the upload just made has become: the
\* batches of the files that loaded are the last ones held, in order
BatchOfFile(i) ==
  transaction_dfs[Len(transaction_dfs) - ParsedCount(out.upload_results)
                  + ParsedCount(SubSeq(out.upload_results, 1, i))]

\* every record of the batch loaded from the archive has, in each of the
\* four optional fields, what the archive stores when it has the column,
\* and else balance 0, the account given, account_type 'checking' and
\* currency 'EUR'
BackFilled(archive, df, account) ==
  LET has(col) == col \in archive.columns
  IN  /\ Len(df.rows) = Len(archive.rows)
      /\ \A k \in 1..Len(df.rows) :
           LET r == df.rows[k]
               stored == archive.rows[k]
           IN  /\ r.balance = IF has("balance") THEN stored.balance ELSE 0
               /\ r.account_id =
                    IF has("account_id") THEN stored.account_id ELSE account
               /\ r.account_type =
                    IF has("account_type") THEN stored.account_type ELSE "checking"
               /\ r.currency = IF has("currency") THEN stored.currency ELSE "EUR"

\* C19, as stated: the optional fields an archive lacks are back-filled
\* with balance 0.0, account_id 'archival-import', account_type 'checking'
\* and currency 'EUR'; those it has are kept as stored.
C19_BackFillArchivalImport ==
  out.op = "update_output_parquet" =>
    \A i \in 1..Len(out.files) :
       out.upload_results[i].outcome = "parsed" =>
         BackFilled(out.files[i].contents, BatchOfFile(i), "archival-import")

\* C19, amended: the account_id that is back-filled is 'parquet-import'.
C19_BackFillParquetImport ==
  out.op = "update_output_parquet" =>
    \A i \in 1..Len(out.files) :
       out.upload_results[i].outcome = "parsed" =>
         BackFilled(out.files[i].contents, BatchOfFile(i), "parquet-import")

\* an archive with the mandatory columns only was loaded after a saved
\* archive that has all columns
C19_Witness ==
  /\ out.op = "update_output_parquet"
  /\ Len(out.files) = 2
  /\ out.files[1].contents = EarlierArchive
  /\ AccountColumns \subseteq EarlierArchive.columns
  /\ out.files[2].contents = ForeignArchive
  /\ out.upload_results[2].outcome = "parsed"
  /\ BatchOfFile(2).rows[1].account_id = "parquet-import"
  /\ BatchOfFile(1).rows[1].account_type = "CHECKING"


\* C23: after any uploads, exports and archival re-imports, all the
\* transactions of one held batch carry the same account_id, balance and
\* currency, a batch loaded from an archive saved from several batches
\* included
C23_BatchSharesAccount ==
  \A i \in 1..Len(transaction_dfs) :
     \A j, k \in 1..Len(transaction_dfs[i].rows) :
        LET r == transaction_dfs[i].rows[j]
            s == transaction_dfs[i].rows[k]
        IN  /\ r.account_id = s.account_id
            /\ r.balance = s.balance
            /\ r.currency = s.currency
(***************************************************************************)
(* Claims about the view functions on any list of frames (SpecFunctions)   *)
(***************************************************************************)

\* the rows of all frames of dfs
RowsOf(dfs) == Flatten([i \in 1..Len(dfs) |-> dfs[i].rows])

\* C15: without frames or with empty frames only, both functions return
\* an empty result; get_spending_by_category also returns an empty result
\* when no amount is negative.
C15_DegenerateInputs ==
  /\ (out.op \in {"get_balance_over_time", "get_spending_by_category"}
        /\ RowsOf(out.dfs) = <<>>) => out.result = <<>>
  /\ (out.op = "get_spending_by_category"
        /\ \A k \in 1..Len(RowsOf(out.dfs)) : RowsOf(out.dfs)[k].amount >= 0)
       => out.result = <<>>

\* the totals of two frames were asked for, one without rows and one that
\* holds an income only
C15_Witness ==
  /\ out.op = "get_spending_by_category"
  /\ Len(out.dfs) = 2
  /\ empty(out.dfs[1])
  /\ \E k \in 1..Len(RowsOf(out.dfs)) : RowsOf(out.dfs)[k].amount > 0
  /\ out.result = <<>>

\* the starting balance cannot be computed from the first frame
StartingBalanceFails(dfs) ==
  empty(dfs[1]) \/ NonNumeric(dfs[1], "balance")

\* C16: without anchor, when the starting balance cannot be computed from
\* the first frame, the series is that of the starting balance 0: it is not
\* empty and it ends at the sum of all amounts.
C16_StartingBalanceFallback ==
  (out.op = "get_balance_over_time" /\ out.manual_balance = 0
     /\ RowsOf(out.dfs) # <<>> /\ StartingBalanceFails(out.dfs)) =>
    /\ out.result # <<>>
    /\ out.result[Len(out.result)].balance = sum_amount(RowsOf(out.dfs))


\* other lists of frames with the same transactions: the batches in reverse
\* order, all transactions in one batch, each transaction in a batch of its
\* own
Regroupings(dfs) ==
  LET all == concat(dfs)
  IN  { [i \in 1..Len(dfs) |-> dfs[Len(dfs) + 1 - i]],
        <<all>>,
        [k \in 1..Len(all.rows) |->
           [columns |-> all.columns, rows |-> <<all.rows[k]>>]] }

\* C28: get_spending_by_category, and get_balance_over_time with a non-zero
\* anchor, depend on the transactions held only: reordering the batches or
\* splitting the same transactions into batches differently gives the same
\* totals and the same series.
C28_DependsOnTransactionsOnly ==
  /\ out.op = "get_spending_by_category" =>
       \A other \in Regroupings(out.dfs) :
          get_spending_by_category(other) = out.result
  /\ (out.op = "get_balance_over_time" /\ out.manual_balance # 0) =>
       \A other \in Regroupings(out.dfs) :
          get_balance_over_time(other, out.manual_balance) = out.result

\* the series of two different batches was reconstructed from an anchor
C28_Witness ==
  /\ out.op = "get_balance_over_time"
  /\ out.manual_balance # 0
  /\ Len(out.dfs) = 2
  /\ ~empty(out.dfs[1])
  /\ ~empty(out.dfs[2])
  /\ out.dfs[1] # out.dfs[2]
  /\ Len(out.result) >= 2
(***************************************************************************)
(* Claims on the requests served by threads                                *)
(***************************************************************************)

ViewOperations ==
  {"update_balance_chart", "update_pie_chart", "update_category_bar_chart",
   "update_transactions_table"}

\* C22: a derived view computed while an upload is in progress observes the
\* held collection as it was before the upload or as it is after the upload
\* has completed, never emptied or holding only some of the upload's batches
C22_ViewObservesSnapshot ==
  (request.op = "update_output" /\ out.op \in ViewOperations) =>
     transaction_dfs \in {request.before, update_output(request.files).dfs}


(***************************************************************************)
(* Claims on views and exports (SpecFrame)                                 *)
(***************************************************************************)

\* C27: computing a derived view (the balance chart, the category charts,
\* the transactions table) or exporting with save_transactions_to_parquet
\* leaves the held collection unchanged.
C27_ViewsAndExportFrame ==
  [][out'.op \in ViewOperations \cup {"save_transactions"} =>
       transaction_dfs' = transaction_dfs]_vars

\* two batches are held and have been exported, and the table of their
\* transactions has been rendered
C27_Witness ==
  /\ Len(transaction_dfs) = 2
  /\ saved = save_transactions_to_parquet(transaction_dfs)
  /\ Len(store_data) = 2
  /\ out.op \in ViewOperations
(***************************************************************************)
(* Claims about the statement parsers (SpecParse)                          *)
(***************************************************************************)

HasText(line, attribute) ==
  attribute \in DOMAIN line /\ line[attribute] # <<>>

\* C25: for every line of a successfully parsed statement the record's
\* description is the memo when the memo is non-empty and the payee
\* otherwise, its category is categorize_transaction of that description,
\* and account_id, account_type, balance and currency are the values of the
\* statement header, the same on every record.
C25_RecordPerLine ==
  (out.op \in {"parse_ofx", "parse_ofc"} /\ ~empty(out.result)) =>
     LET lines == out.contents.transactions
         rows == out.result.rows
     IN  /\ Len(rows) = Len(lines)
         /\ \A i \in 1..Len(lines) :
              /\ rows[i].description =
                   IF HasText(lines[i], "memo") THEN lines[i].memo
                   ELSE lines[i].payee
              /\ rows[i].category = categorize_transaction(rows[i].description)
              /\ rows[i].date = lines[i].date
              /\ rows[i].amount = lines[i].amount
              /\ rows[i].account_id = out.contents.account_id
              /\ rows[i].account_type = out.contents.account_type
              /\ rows[i].balance = out.contents.balance
              /\ rows[i].currency = out.contents.currency

\* a statement of two lines was parsed, the first with memo and payee, the
\* second with an empty memo: the records are described by the memo and by
\* the payee
C25_Witness ==
  /\ out.op = "parse_ofx"
  /\ Len(out.result.rows) = 2
  /\ HasText(out.contents.transactions[1], "memo")
  /\ HasText(out.contents.transactions[1], "payee")
  /\ out.result.rows[1].description = Cafe
  /\ out.result.rows[1].category = "Restaurants"
  /\ ~HasText(out.contents.transactions[2], "memo")
  /\ out.result.rows[2].description = Lidl
  /\ out.result.rows[2].category = "Courses"

\* a line that cannot be converted: its amount is no number, or it has
\* neither a memo nor a payee to categorize
Unconvertible(line) ==
  \/ "amount" \notin DOMAIN line
  \/ ~HasText(line, "memo") /\ "payee" \notin DOMAIN line

\* C30: parse_ofx is all-or-nothing per file and never raises: when any
\* single line cannot be converted the whole file yields an empty batch
\* (and a result is returned whatever the contents); parse_ofc returns what
\* parse_ofx returns.
C30_AllOrNothing ==
  out.op \in {"parse_ofx", "parse_ofc"} =>
     /\ out.result = parse_ofx(out.contents)
     /\ \/ out.result = EmptyDataFrame
        \/ /\ out.contents.format = "ofx"
           /\ Len(out.result.rows) = Len(out.contents.transactions)
     /\ (/\ out.contents.format = "ofx"
         /\ \E i \in 1..Len(out.contents.transactions) :
               Unconvertible(out.contents.transactions[i]))
          => out.result = EmptyDataFrame

\* a statement whose first line converts and whose second has neither memo
\* nor payee was parsed: nothing is returned of it
C30_Witness ==
  /\ out.op = "parse_ofx"
  /\ out.contents.format = "ofx"
  /\ Len(out.contents.transactions) = 2
  /\ ~Unconvertible(out.contents.transactions[1])
  /\ Unconvertible(out.contents.transactions[2])
  /\ "amount" \in DOMAIN out.contents.transactions[2]
  /\ out.result = EmptyDataFrame
(***************************************************************************)
(* Claims on exports and re-imports (SpecReimport)                         *)
(***************************************************************************)

\* the totals with every amount doubled
Doubled(totals) ==
  [i \in 1..Len(totals) |-> [totals[i] EXCEPT !.amount = 2 * @]]

\* the last operation was a successful export of what is held
JustExported ==
  /\ out.op = "save_transactions"
  /\ out.success

\* C29: an export followed by the upload of the saved file through the
\* archival upload, with no bank upload in between, leaves every
\* transaction held before twice in the collection, the original batches
\* followed by one merged batch, so that every category total is doubled.
C29_ReimportDoubles ==
  [][(JustExported /\ out'.op = "update_output_parquet") =>
       /\ transaction_dfs' =
            transaction_dfs \o
              <<[columns |-> concat(transaction_dfs).columns,
                 rows |-> concat(transaction_dfs).rows]>>
       /\ get_spending_by_category(transaction_dfs') =
            Doubled(get_spending_by_category(transaction_dfs))]_vars

\* two batches with an expense were exported and the file re-imported: the
\* third batch holds both transactions and the total is twice the expense
C29_Witness ==
  /\ out.op = "update_output_parquet"
  /\ Len(transaction_dfs) = 3
  /\ transaction_dfs[1] # transaction_dfs[2]
  /\ transaction_dfs[3].rows = transaction_dfs[1].rows \o transaction_dfs[2].rows
  /\ saved = save_transactions_to_parquet(SubSeq(transaction_dfs, 1, 2))
  /\ get_spending_by_category(transaction_dfs) =
       <<[category |-> "Restaurants", amount |-> 100]>>
====
